---------------------------- MODULE Spec2Model ----------------------------
(***************************************************************************)
(* A model of rust-cpace (src/src/lib.rs): the CPace password-authenticated *)
(* key exchange over ristretto255.                                          *)
(*                                                                          *)
(* The three collaborators the crate calls are modelled at their interface: *)
(*   - the hash (hmac_sha512::Hash) is collision-free: a digest is the      *)
(*     byte string that was hashed, wrapped in a record;                    *)
(*   - the group (curve25519_dalek ristretto) is of prime order; an element *)
(*     is the multiple `exp` of the element the hash-to-group map gave for  *)
(*     the digest `base`, and no relation is known between the images of    *)
(*     two different digests;                                               *)
(*   - the random source (getrandom) either fails or fills the buffer.      *)
(* Byte strings are sequences of numbers 0..255.                            *)
(***************************************************************************)
EXTENDS Integers, Sequences, FiniteSets, TLC

(***************************************************************************)
(* Constants of the crate.                                                  *)
(***************************************************************************)
SESSION_ID_BYTES == 16

STEP2_PACKET_BYTES == 32

STEP1_PACKET_BYTES == SESSION_ID_BYTES + STEP2_PACKET_BYTES

SHARED_KEY_BYTES == 32

\* hmac_sha512::BLOCKBYTES, the block size of SHA-512.
BLOCKBYTES == 128

\* "CPaceRistretto255-1"
DSI1 == <<67, 80, 97, 99, 101, 82, 105, 115, 116, 114, 101, 116, 116, 111,
          50, 53, 53, 45, 49>>

\* "CPaceRistretto255-1"
DSI2 == <<67, 80, 97, 99, 101, 82, 105, 115, 116, 114, 101, 116, 116, 111,
          50, 53, 53, 45, 49>>

\* The longest identifier CPace::new accepts (0xff).
MAX_ID_LEN == 255

(***************************************************************************)
(* Result<T, Error>.                                                        *)
(***************************************************************************)
Ok(v) == [ok |-> TRUE, val |-> v]

Err(e) == [ok |-> FALSE, err |-> e]

\* No call has been made yet (a harness value, not a value of the crate).
NotCalled == [ok |-> FALSE, err |-> "NotCalled"]

(***************************************************************************)
(* Option<T> for the associated data.                                       *)
(***************************************************************************)
None == [some |-> FALSE, bytes |-> <<>>]

Some(b) == [some |-> TRUE, bytes |-> b]

\* A slip: associated data that is present fed behind a byte with its
\* length.
AdBytes_Prefixed(ad) ==
    IF ad.some THEN <<Len(ad.bytes) % 256>> \o ad.bytes ELSE <<>>

\* ad.as_ref().map(|ad| ad.as_ref()).unwrap_or_default()
AdBytes(ad) == IF ad.some THEN ad.bytes ELSE <<>>

\* n copies of the byte b.
Rep(b, n) == [i \in 1..n |-> b]

(***************************************************************************)
(* The hash.  Hash::new / update / finalize: the digest of the              *)
(* concatenation of the chunks fed to update.                               *)
(***************************************************************************)
Hash(m) == [sha512 |-> m]

(***************************************************************************)
(* The group.  GroupOrder stands for the prime order of ristretto255        *)
(* (2^252 + 27742317777372353535851937790883648493), scaled down.           *)
(***************************************************************************)
GroupOrder == 5

\* Every scalar, as Scalar holds it: reduced modulo the group order.
Scalars == 0..(GroupOrder - 1)

\* RistrettoPoint::identity().  Its base is immaterial and fixed.
Identity == [base |-> Hash(<<>>), exp |-> 0]

\* RistrettoPoint::from_uniform_bytes
FromUniformBytes(h) == [base |-> h, exp |-> 1]

\* Scalar::from_bytes_mod_order_wide: the 64 bytes, read as a number,
\* reduced modulo the group order.
FromBytesModOrderWide(wide) == wide % GroupOrder

\* RistrettoPoint * Scalar
MulPoint(pt, s) ==
    LET x == (pt.exp * s) % GroupOrder
    IN  IF x = 0 THEN Identity ELSE [base |-> pt.base, exp |-> x]

(***************************************************************************)
(* The 32-byte encoding of an element.  Each element has one canonical      *)
(* encoding (nc = 0); the identity's is the 32 zero bytes (RFC 9496).       *)
(* nc > 0 marks a byte string that is no canonical encoding of any element  *)
(* (a negative or unreduced field element, a non-square), kept apart by the *)
(* element whose encoding it was made from.                                 *)
(***************************************************************************)
\* RistrettoPoint::compress
Compress(pt) == [pt |-> pt, nc |-> 0]

\* [0u8; 32]
ZeroBytes32 == Compress(Identity)

\* A byte string that decodes to no element.
NonCanonical(pt) == [pt |-> pt, nc |-> 1]

\* A slip: a byte string that is no canonical encoding is coerced to the
\* element it resembles.
Decompress_Lenient(bytes) == Ok(bytes.pt)

\* A slip: bytes that decode to nothing are taken for the identity.
Decompress_AsIdentity(bytes) ==
    IF bytes.nc = 0 THEN Ok(bytes.pt) ELSE Ok(Identity)

\* CompressedRistretto::from_slice(..).decompress().ok_or(InvalidPublicKey)
Decompress(bytes) ==
    IF bytes.nc = 0 THEN Ok(bytes.pt) ELSE Err("InvalidPublicKey")

(***************************************************************************)
(* usize arithmetic.  The crate's only wrapping operation is the            *)
(* subtraction in the padding length, whose result is masked to its low 7   *)
(* bits; the low bits of a wrapped difference are the same at every width,  *)
(* so the 64-bit word is cut to the 30 bits TLC's numbers can hold.         *)
(***************************************************************************)
USIZE_MODULUS == 2^30

\* usize::wrapping_sub
WrappingSub(a, b) == (a - b) % USIZE_MODULUS

\* The operator & on usize.
RECURSIVE BitAnd(_, _)
BitAnd(a, b) ==
    IF a = 0 \/ b = 0
    THEN 0
    ELSE (a % 2) * (b % 2) + 2 * BitAnd(a \div 2, b \div 2)

\* `x as u8`
AsU8(x) == x % 256

(***************************************************************************)
(* CPace::new, first half: the bytes fed to the generator hash.             *)
(***************************************************************************)
\* A slip: a subtraction that stops at zero in place of the wrapping one.
PadLen_Saturating(password) ==
    BitAnd(IF Len(DSI1) + Len(password) > BLOCKBYTES
           THEN 0
           ELSE BLOCKBYTES - (Len(DSI1) + Len(password)),
           BLOCKBYTES - 1)

\* A slip: no padding at all.
PadLen_Unpadded(password) == 0

\* pad_len
PadLen(password) ==
    BitAnd(WrappingSub(BLOCKBYTES, Len(DSI1) + Len(password)), BLOCKBYTES - 1)

\* A slip: the two identifiers fed in the other order.
GenInput_IdsSwapped(session_id, password, id_a, id_b, ad) ==
    DSI1 \o password \o Rep(0, PadLen(password)) \o session_id
         \o <<AsU8(Len(id_b))>> \o id_b
         \o <<AsU8(Len(id_a))>> \o id_a
         \o AdBytes(ad)

\* The concatenation of the nine st.update(..) calls of CPace::new.
GenInput(session_id, password, id_a, id_b, ad) ==
    DSI1 \o password \o Rep(0, PadLen(password)) \o session_id
         \o <<AsU8(Len(id_a))>> \o id_a
         \o <<AsU8(Len(id_b))>> \o id_b
         \o AdBytes(ad)

\* The generator: st.finalize() mapped onto the group.
Generator(session_id, password, id_a, id_b, ad) ==
    FromUniformBytes(Hash(GenInput(session_id, password, id_a, id_b, ad)))

(***************************************************************************)
(* getrandom(&mut buf): it fails and leaves the buffer as it was, or fills  *)
(* it.  The 64 bytes drawn for the scalar are held as the number they       *)
(* encode.                                                                  *)
(***************************************************************************)
RandomFailed(buf) == [ok |-> FALSE, bytes |-> buf]

\* A slip: the error of getrandom dropped, the buffer used as it is.
IsRandomError_Ignored(rnd) == FALSE

\* The `?` after getrandom(..): whether the call returns Error::Random here.
IsRandomError(rnd) == ~rnd.ok

RandomFilled(bytes) == [ok |-> TRUE, bytes |-> bytes]

(***************************************************************************)
(* CPace::new.  `rnd` is the outcome of its getrandom call.  The value is   *)
(* the call's result with the getrandom outcomes it consumed.               *)
(***************************************************************************)
\* A slip: the bound off by one.
IdsTooLong_OffByOne(args) ==
    Len(args.id_a) > MAX_ID_LEN + 1 \/ Len(args.id_b) > MAX_ID_LEN + 1

\* id_a.len() > 0xff || id_b.len() > 0xff
IdsTooLong(args) ==
    Len(args.id_a) > MAX_ID_LEN \/ Len(args.id_b) > MAX_ID_LEN

\* A slip: the bytes drawn for the scalar also fed to the generator hash.
New_SaltedGenerator(session_id, args, rnd) ==
    IF IdsTooLong(args)
    THEN [res |-> Err("Overflow"), draws |-> <<>>]
    ELSE LET p == FromUniformBytes(Hash(
                      GenInput(session_id, args.password, args.id_a,
                               args.id_b, args.ad) \o <<rnd.bytes>>))
         IN  IF IsRandomError(rnd)
             THEN [res |-> Err("Random"), draws |-> <<rnd>>]
             ELSE LET r == FromBytesModOrderWide(rnd.bytes)
                  IN  [res   |-> Ok([session_id |-> session_id,
                                     p          |-> MulPoint(p, r),
                                     r          |-> r]),
                       draws |-> <<rnd>>]

New(session_id, args, rnd) ==
    IF IdsTooLong(args)
    THEN [res |-> Err("Overflow"), draws |-> <<>>]
    ELSE LET p == Generator(session_id, args.password, args.id_a,
                            args.id_b, args.ad)
         IN  IF IsRandomError(rnd)
             THEN [res |-> Err("Random"), draws |-> <<rnd>>]
             ELSE LET r == FromBytesModOrderWide(rnd.bytes)
                  IN  [res   |-> Ok([session_id |-> session_id,
                                     p          |-> MulPoint(p, r),
                                     r          |-> r]),
                       draws |-> <<rnd>>]

(***************************************************************************)
(* CPace::finalize.                                                         *)
(***************************************************************************)
\* let p = op * self.r
FinalizeK(ctx, op) == MulPoint(op, ctx.r)

\* A slip: K left out of the hash, which then holds public values only.
FinalizeInput_NoK(k, ya, yb) == <<DSI2, Compress(ya), Compress(yb)>>

\* The concatenation of the four st.update(..) calls of CPace::finalize.
FinalizeInput(k, ya, yb) == <<DSI2, Compress(k), Compress(ya), Compress(yb)>>

\* How many bytes the four st.update(..) calls of CPace::finalize feed:
\* DSI2, then for each element its encoding, an array of 32 bytes.
FinalizeInputLen(m) == Len(m[1]) + (Len(m) - 1) * STEP2_PACKET_BYTES

\* h[..SHARED_KEY_BYTES] and h[SHARED_KEY_BYTES..]
SplitKeys(h) ==
    [k1 |-> [digest |-> h, from |-> 0, len |-> SHARED_KEY_BYTES],
     k2 |-> [digest |-> h, from |-> SHARED_KEY_BYTES, len |-> SHARED_KEY_BYTES]]

Finalize(ctx, op, ya, yb) ==
    Ok(SplitKeys(Hash(FinalizeInput(FinalizeK(ctx, op), ya, yb))))

\* What a finalize call was given and the K it computed (a record of the
\* call, kept for the properties).
FinalizeCall(ctx, a) ==
    [called |-> TRUE, op |-> a.op, ya |-> a.ya, yb |-> a.yb,
     r |-> ctx.r, k |-> FinalizeK(ctx, a.op)]

NoFinalize == [called |-> FALSE]

(***************************************************************************)
(* CPace::step1.                                                            *)
(***************************************************************************)
\* A slip: the first 16 bytes of the packet left as they were initialised.
Step1Packet_ZeroSid(ctx) ==
    [sid |-> Rep(0, SESSION_ID_BYTES), elem |-> Compress(ctx.p)]

\* step1_packet: ctx.session_id in [..16], ctx.p.compress() in [16..].
Step1Packet(ctx) == [sid |-> ctx.session_id, elem |-> Compress(ctx.p)]

Step1Fn(args, rnd_sid, rnd_r) ==
    IF IsRandomError(rnd_sid)
    THEN [res |-> Err("Random"), draws |-> <<rnd_sid>>]
    ELSE LET n == New(rnd_sid.bytes, args, rnd_r)
         IN  IF ~n.res.ok
             THEN [res |-> n.res, draws |-> <<rnd_sid>> \o n.draws]
             ELSE [res   |-> Ok([ctx          |-> n.res.val,
                                 step1_packet |-> Step1Packet(n.res.val)]),
                   draws |-> <<rnd_sid>> \o n.draws]

(***************************************************************************)
(* CPace::step2.                                                            *)
(***************************************************************************)
\* A slip: the responder's own element hashed before the initiator's.
Step2FinalizeArgs_Swapped(ctx, ya) == [op |-> ya, ya |-> ctx.p, yb |-> ya]

\* ctx.finalize(ya, ya, ctx.p)
Step2FinalizeArgs(ctx, ya) == [op |-> ya, ya |-> ya, yb |-> ctx.p]

\* A slip: the received element decoded before CPace::new is called.
Step2Fn_DecodeFirst(step1_packet, args, rnd_r) ==
    LET ya == Decompress(step1_packet.elem)
    IN  IF ~ya.ok
        THEN [res |-> Err(ya.err), draws |-> <<>>, fin |-> NoFinalize]
        ELSE LET n == New(step1_packet.sid, args, rnd_r)
             IN  IF ~n.res.ok
                 THEN [res |-> n.res, draws |-> n.draws, fin |-> NoFinalize]
                 ELSE LET ctx == n.res.val
                          a == Step2FinalizeArgs(ctx, ya.val)
                          shared_keys == Finalize(ctx, a.op, a.ya, a.yb)
                      IN  [res   |-> Ok([shared_keys  |-> shared_keys.val,
                                         step2_packet |-> Compress(ctx.p)]),
                           draws |-> n.draws,
                           fin   |-> FinalizeCall(ctx, a)]

Step2Fn(step1_packet, args, rnd_r) ==
    LET n == New(step1_packet.sid, args, rnd_r)
    IN  IF ~n.res.ok
        THEN [res |-> n.res, draws |-> n.draws, fin |-> NoFinalize]
        ELSE LET ctx == n.res.val
                 step2_packet == Compress(ctx.p)
                 ya == Decompress(step1_packet.elem)
             IN  IF ~ya.ok
                 THEN [res |-> Err(ya.err), draws |-> n.draws,
                       fin |-> NoFinalize]
                 ELSE LET a == Step2FinalizeArgs(ctx, ya.val)
                          shared_keys == Finalize(ctx, a.op, a.ya, a.yb)
                      IN  [res   |-> Ok([shared_keys  |-> shared_keys.val,
                                         step2_packet |-> step2_packet]),
                           draws |-> n.draws,
                           fin   |-> FinalizeCall(ctx, a)]

(***************************************************************************)
(* CPace::step3 (Step1Out::step3 passes its ctx and the packet on).         *)
(***************************************************************************)
\* A slip: K computed from the initiator's own element.
Step3FinalizeArgs_OwnElement(ctx, yb) == [op |-> ctx.p, ya |-> ctx.p, yb |-> yb]

\* self.finalize(yb, self.p, yb)
Step3FinalizeArgs(ctx, yb) == [op |-> yb, ya |-> ctx.p, yb |-> yb]

Step3Fn(ctx, step2_packet) ==
    LET yb == Decompress(step2_packet)
    IN  IF ~yb.ok
        THEN [res |-> Err(yb.err), fin |-> NoFinalize]
        ELSE LET a == Step3FinalizeArgs(ctx, yb.val)
             IN  [res |-> Finalize(ctx, a.op, a.ya, a.yb),
                  fin |-> FinalizeCall(ctx, a)]

(***************************************************************************)
(* The inputs the model exercises.                                          *)
(***************************************************************************)
\* "password" and "passwore"
Passwords ==
    {<<112, 97, 115, 115, 119, 111, 114, 100>>,
     <<112, 97, 115, 115, 119, 111, 114, 101>>}

\* "client", "server", and identifiers of 255 and of 256 bytes
Ids ==
    {<<99, 108, 105, 101, 110, 116>>, <<115, 101, 114, 118, 101, 114>>,
     Rep(120, MAX_ID_LEN), Rep(120, MAX_ID_LEN + 1)}

\* None, Some(""), Some("ad")
Ads == {None, Some(<<>>), Some(<<97, 100>>)}

\* The arguments of test_cpace.
TestArgs ==
    [password |-> <<112, 97, 115, 115, 119, 111, 114, 100>>,
     id_a     |-> <<99, 108, 105, 101, 110, 116>>,
     id_b     |-> <<115, 101, 114, 118, 101, 114>>,
     ad       |-> Some(<<97, 100>>)]

\* The arguments of test_cpace with at most one of them replaced.
AllArgs ==
    {[TestArgs EXCEPT !.password = x] : x \in Passwords}
      \cup {[TestArgs EXCEPT !.id_a = x] : x \in Ids}
      \cup {[TestArgs EXCEPT !.id_b = x] : x \in Ids}
      \cup {[TestArgs EXCEPT !.ad = x] : x \in Ads}

\* What the initiator is called with: the test's arguments, no associated
\* data, an identifier of the greatest length, and one too long.
Step1Args ==
    {a \in AllArgs :
        /\ a.password = TestArgs.password
        /\ a.id_b = TestArgs.id_b
        /\ a.ad \in {TestArgs.ad, None}
        /\ a.id_a = TestArgs.id_a \/ Len(a.id_a) >= MAX_ID_LEN}

\* The session ids the random source may give.
SessionIds == {Rep(17, SESSION_ID_BYTES), Rep(34, SESSION_ID_BYTES)}

\* The 64-byte strings the random source may give, as numbers.  Those that
\* reduce to the zero scalar (one in 2^252 for ristretto255) are left out,
\* as collisions of the hash are.
WideValues == {w \in 1..(GroupOrder + 1) : w % GroupOrder # 0}

\* The outcomes of getrandom(&mut session_id): session_id starts zeroed.
SidDraws ==
    {RandomFilled(x) : x \in SessionIds}
      \cup {RandomFailed(Rep(0, SESSION_ID_BYTES))}

\* The outcomes of getrandom(&mut r): r starts zeroed.
WideDraws == {RandomFilled(w) : w \in WideValues} \cup {RandomFailed(0)}

\* The scalars by which whoever controls the network multiplies the
\* elements it has seen.
ForgeScalars == {0, 2}

\* How many times step3 is called on one Step1Out.
MaxStep3Calls == 2

\* The runs of the protocol.
Runs == {1, 2}

(***************************************************************************)
(* The state: per run, the calls made so far with what they were given and  *)
(* what they returned.  A Step1Out lives in step1[i].res.val, a Step2Out in *)
(* step2[i].res.val.                                                        *)
(***************************************************************************)
VARIABLES
    live,   \* the runs that take place (one, unless runs are interleaved)
    step1,  \* [Runs -> the step1 call: its arguments, draws and result]
    step2,  \* [Runs -> the step2 call: packet received, arguments, result]
    step3,  \* [Runs -> the step3 calls: how many were made, how many
            \*  returned keys, and the last one]
    gen,    \* two derivations of the generator: their inputs, and once
            \* they are made the padding lengths, the bytes hashed and
            \* the elements
    call    \* one call of step1 or step2: what it is given, what the
            \* random source holds for it, and once made what it returned

vars == <<live, step1, step2, step3, gen, call>>

NoStep1 ==
    [called |-> FALSE, args |-> TestArgs, draws |-> <<>>, res |-> NotCalled]

NoStep2 ==
    [called |-> FALSE,
     packet |-> [sid |-> Rep(0, SESSION_ID_BYTES), elem |-> ZeroBytes32],
     args   |-> TestArgs, draws |-> <<>>, res |-> NotCalled,
     fin    |-> NoFinalize]

NoStep3 ==
    [n |-> 0, returned |-> 0, packet |-> ZeroBytes32, res |-> NotCalled,
     fin |-> NoFinalize]

\* What new is given besides the random source.
NewInput(session_id, args) ==
    [session_id |-> session_id, password |-> args.password,
     id_a |-> args.id_a, id_b |-> args.id_b, ad |-> args.ad]

NoGen ==
    [a    |-> NewInput(Rep(0, SESSION_ID_BYTES), TestArgs),
     b    |-> NewInput(Rep(0, SESSION_ID_BYTES), TestArgs),
     done |-> FALSE, pad_a |-> 0, pad_b |-> 0,
     bytes_a |-> <<>>, bytes_b |-> <<>>,
     p_a  |-> Identity, p_b |-> Identity]

NoCall ==
    [fn      |-> "none",
     args    |-> TestArgs,
     packet  |-> [sid |-> Rep(0, SESSION_ID_BYTES), elem |-> ZeroBytes32],
     rnd_sid |-> RandomFailed(Rep(0, SESSION_ID_BYTES)),
     rnd_r   |-> RandomFailed(0),
     done    |-> FALSE, draws |-> <<>>, res |-> NotCalled]

Init ==
    /\ live = {1}
    /\ step1 = [i \in Runs |-> NoStep1]
    /\ step2 = [i \in Runs |-> NoStep2]
    /\ step3 = [i \in Runs |-> NoStep3]
    /\ gen = NoGen
    /\ call = NoCall

(***************************************************************************)
(* The network.  Step1 and step2 packets travel over a channel that whoever *)
(* controls it may alter: it delivers a packet as sent, or one made from    *)
(* what it has seen.                                                        *)
(***************************************************************************)
\* The encodings made from the elements `known`: the elements themselves,
\* multiples of them, and byte strings that decode to nothing.
Forge(known) ==
    {Compress(e) : e \in known}
      \cup {Compress(MulPoint(e, k)) : e \in known, k \in ForgeScalars}
      \cup {NonCanonical(e) : e \in known}

\* The elements sent in run i so far.
SentA(i) == IF step1[i].res.ok THEN {step1[i].res.val.ctx.p} ELSE {}

SentB(i) == IF step2[i].res.ok THEN {step2[i].fin.yb} ELSE {}

\* The Step1 packets that may reach the responder of run i.
Step1Deliveries(i) ==
    [sid : SessionIds, elem : Forge(SentA(i))]

\* The Step2 packets that may reach the initiator of run i.
Step2Deliveries(i) == Forge(SentA(i) \cup SentB(i))

(***************************************************************************)
(* The calls.                                                               *)
(***************************************************************************)
\* let client = CPace::step1(password, id_a, id_b, ad)
Step1(i) ==
    /\ i \in live
    /\ ~step1[i].called
    /\ \E args \in Step1Args, rnd_sid \in SidDraws, rnd_r \in WideDraws :
          LET out == Step1Fn(args, rnd_sid, rnd_r)
          IN  step1' = [step1 EXCEPT ![i] =
                          [called |-> TRUE, args |-> args,
                           draws |-> out.draws, res |-> out.res]]
    /\ UNCHANGED <<live, step2, step3, gen, call>>

\* let step2 = CPace::step2(&packet, password, id_a, id_b, ad)
Step2(i) ==
    /\ i \in live
    /\ step1[i].res.ok
    /\ ~step2[i].called
    /\ \E packet \in Step1Deliveries(i), args \in AllArgs,
          rnd_r \in WideDraws :
          LET out == Step2Fn(packet, args, rnd_r)
          IN  step2' = [step2 EXCEPT ![i] =
                          [called |-> TRUE, packet |-> packet, args |-> args,
                           draws |-> out.draws, res |-> out.res,
                           fin |-> out.fin]]
    /\ UNCHANGED <<live, step1, step3, gen, call>>

\* A slip: step3 takes the Step1Out by value, and it is gone after the call.
Step3_Consuming(i) ==
    /\ i \in live
    /\ step1[i].res.ok
    /\ step3[i].n < MaxStep3Calls
    /\ \E packet \in Step2Deliveries(i) :
          LET out == Step3Fn(step1[i].res.val.ctx, packet)
          IN  step3' = [step3 EXCEPT ![i] =
                          [n        |-> step3[i].n + 1,
                           returned |-> step3[i].returned
                                          + (IF out.res.ok THEN 1 ELSE 0),
                           packet   |-> packet,
                           res      |-> out.res,
                           fin      |-> out.fin]]
    /\ step1' = [step1 EXCEPT ![i].res = Err("Moved")]
    /\ UNCHANGED <<live, step2, gen, call>>

\* A slip: a step3 call that fails wipes the scalar of the context.
Step3_WipeOnError(i) ==
    /\ i \in live
    /\ step1[i].res.ok
    /\ step3[i].n < MaxStep3Calls
    /\ \E packet \in Step2Deliveries(i) :
          LET out == Step3Fn(step1[i].res.val.ctx, packet)
          IN  /\ step3' = [step3 EXCEPT ![i] =
                             [n        |-> step3[i].n + 1,
                              returned |-> step3[i].returned
                                             + (IF out.res.ok THEN 1 ELSE 0),
                              packet   |-> packet,
                              res      |-> out.res,
                              fin      |-> out.fin]]
              /\ step1' = IF out.res.ok
                          THEN step1
                          ELSE [step1 EXCEPT ![i].res.val.ctx.r = 0]
    /\ UNCHANGED <<live, step2, gen, call>>

\* let shared_keys = client.step3(&packet): Step1Out::step3 borrows the
\* Step1Out and hands its ctx to CPace::step3, which borrows it in turn.
Step3(i) ==
    /\ i \in live
    /\ step1[i].res.ok
    /\ step3[i].n < MaxStep3Calls
    /\ \E packet \in Step2Deliveries(i) :
          LET out == Step3Fn(step1[i].res.val.ctx, packet)
          IN  step3' = [step3 EXCEPT ![i] =
                          [n        |-> step3[i].n + 1,
                           returned |-> step3[i].returned
                                          + (IF out.res.ok THEN 1 ELSE 0),
                           packet   |-> packet,
                           res      |-> out.res,
                           fin      |-> out.fin]]
    /\ UNCHANGED <<live, step1, step2, gen, call>>

Next == \E i \in Runs : Step1(i) \/ Step2(i) \/ Step3(i)

Spec == Init /\ [][Next]_vars

(***************************************************************************)
(* Two runs at once, with the same password, identities and associated      *)
(* data, their calls interleaved in any order.  The random source works and *)
(* never gives the same 16 bytes twice (it would with probability 2^-128),  *)
(* so the two initiators draw different session ids.  Each responder is     *)
(* given the Step1 packet of its run; an initiator is given the Step2       *)
(* packet of its own run or that of the other.                              *)
(***************************************************************************)
InitPair ==
    /\ live = Runs
    /\ step1 = [i \in Runs |-> NoStep1]
    /\ step2 = [i \in Runs |-> NoStep2]
    /\ step3 = [i \in Runs |-> NoStep3]
    /\ gen = NoGen
    /\ call = NoCall

\* The session ids the other runs have drawn.
SidsDrawnBesides(i) ==
    {step1[j].draws[1].bytes : j \in {k \in Runs \ {i} : step1[k].called}}

\* The Step2 packets made so far, in any run.
Step2PacketsMade ==
    {step2[j].res.val.step2_packet : j \in {k \in Runs : step2[k].res.ok}}

PairStep1(i) ==
    /\ i \in live
    /\ ~step1[i].called
    /\ \E sid \in SessionIds \ SidsDrawnBesides(i), w \in WideValues :
          LET out == Step1Fn(TestArgs, RandomFilled(sid), RandomFilled(w))
          IN  step1' = [step1 EXCEPT ![i] =
                          [called |-> TRUE, args |-> TestArgs,
                           draws |-> out.draws, res |-> out.res]]
    /\ UNCHANGED <<live, step2, step3, gen, call>>

PairStep2(i) ==
    /\ i \in live
    /\ step1[i].res.ok
    /\ ~step2[i].called
    /\ \E w \in WideValues :
          LET packet == step1[i].res.val.step1_packet
              out == Step2Fn(packet, TestArgs, RandomFilled(w))
          IN  step2' = [step2 EXCEPT ![i] =
                          [called |-> TRUE, packet |-> packet,
                           args |-> TestArgs, draws |-> out.draws,
                           res |-> out.res, fin |-> out.fin]]
    /\ UNCHANGED <<live, step1, step3, gen, call>>

\* A slip: one context shared by the runs, the second run's once it exists.
PairStep3_SharedContext(i) ==
    /\ i \in live
    /\ step1[i].res.ok
    /\ step3[i].n = 0
    /\ \E packet \in Step2PacketsMade :
          LET shared == IF step1[2].res.ok THEN 2 ELSE i
              out == Step3Fn(step1[shared].res.val.ctx, packet)
          IN  step3' = [step3 EXCEPT ![i] =
                          [n        |-> 1,
                           returned |-> IF out.res.ok THEN 1 ELSE 0,
                           packet   |-> packet,
                           res      |-> out.res,
                           fin      |-> out.fin]]
    /\ UNCHANGED <<live, step1, step2, gen, call>>

PairStep3(i) ==
    /\ i \in live
    /\ step1[i].res.ok
    /\ step3[i].n = 0
    /\ \E packet \in Step2PacketsMade :
          LET out == Step3Fn(step1[i].res.val.ctx, packet)
          IN  step3' = [step3 EXCEPT ![i] =
                          [n        |-> 1,
                           returned |-> IF out.res.ok THEN 1 ELSE 0,
                           packet   |-> packet,
                           res      |-> out.res,
                           fin      |-> out.fin]]
    /\ UNCHANGED <<live, step1, step2, gen, call>>

NextPair == \E i \in Runs : PairStep1(i) \/ PairStep2(i) \/ PairStep3(i)

SpecPair == InitPair /\ [][NextPair]_vars

(***************************************************************************)
(* One call of step1 or of step2 on its own, with everything that can make  *)
(* it fail chosen beforehand: the identifiers, what the random source will  *)
(* give for each draw should the call come to make it, and for step2 the    *)
(* bytes in the element part of the packet.                                 *)
(***************************************************************************)
\* Step1 packets: with an element as step1 makes them, and with bytes that
\* decode to nothing.
OrderPackets ==
    {[sid |-> sid, elem |-> e] :
        sid \in SessionIds,
        e \in LET pt == MulPoint(Generator(Rep(17, SESSION_ID_BYTES),
                                           TestArgs.password, TestArgs.id_a,
                                           TestArgs.id_b, TestArgs.ad), 2)
              IN  {Compress(pt), NonCanonical(pt)}}

InitOrder ==
    /\ live = {}
    /\ step1 = [i \in Runs |-> NoStep1]
    /\ step2 = [i \in Runs |-> NoStep2]
    /\ step3 = [i \in Runs |-> NoStep3]
    /\ gen = NoGen
    /\ \E fn \in {"step1", "step2"}, args \in AllArgs,
          packet \in OrderPackets, rnd_sid \in SidDraws,
          rnd_r \in WideDraws :
          call = [NoCall EXCEPT !.fn = fn, !.args = args, !.packet = packet,
                                !.rnd_sid = rnd_sid, !.rnd_r = rnd_r]

\* CPace::step1(password, id_a, id_b, ad)
CallStep1 ==
    /\ call.fn = "step1"
    /\ ~call.done
    /\ LET out == Step1Fn(call.args, call.rnd_sid, call.rnd_r)
       IN  call' = [call EXCEPT !.done = TRUE, !.draws = out.draws,
                                !.res = out.res]
    /\ UNCHANGED <<live, step1, step2, step3, gen>>

\* CPace::step2(&packet, password, id_a, id_b, ad)
CallStep2 ==
    /\ call.fn = "step2"
    /\ ~call.done
    /\ LET out == Step2Fn(call.packet, call.args, call.rnd_r)
       IN  call' = [call EXCEPT !.done = TRUE, !.draws = out.draws,
                                !.res = out.res]
    /\ UNCHANGED <<live, step1, step2, step3, gen>>

NextOrder == CallStep1 \/ CallStep2

SpecOrder == InitOrder /\ [][NextOrder]_vars

(***************************************************************************)
(* The derivation of the generator on its own: CPace::new up to             *)
(* from_uniform_bytes, applied to two inputs that differ in at most one of  *)
(* session id, password, id_a, id_b and associated data.                    *)
(***************************************************************************)
\* Passwords of 0, 1, 2, 109 and 110 bytes; with "CPaceRistretto255-1" the
\* one of 109 bytes fills a block of the hash.
GenPasswords ==
    {<<>>, <<0>>, <<112>>, <<112, 0>>, Rep(112, 109), Rep(112, 110)}

GenIds == {<<>>, <<0>>, <<99>>, <<99, 0>>}

GenAds == {None, Some(<<>>), Some(<<0>>), Some(<<97, 100>>)}

GenInputs ==
    [session_id : SessionIds, password : GenPasswords, id_a : GenIds,
     id_b : GenIds, ad : GenAds]

\* The fields in which two inputs differ.
FieldsChanged(a, b) ==
    {f \in {"session_id", "password", "id_a", "id_b", "ad"} : a[f] # b[f]}

InitGen ==
    /\ live = {}
    /\ step1 = [i \in Runs |-> NoStep1]
    /\ step2 = [i \in Runs |-> NoStep2]
    /\ step3 = [i \in Runs |-> NoStep3]
    /\ \E a \in GenInputs, b \in GenInputs :
          /\ Cardinality(FieldsChanged(a, b)) <= 1
          /\ gen = [NoGen EXCEPT !.a = a, !.b = b]
    /\ call = NoCall

\* Both derivations: the bytes fed to the hash, and the generator.
Derive ==
    /\ ~gen.done
    /\ ~IdsTooLong(gen.a) /\ ~IdsTooLong(gen.b)
    /\ gen' = [gen EXCEPT
                 !.done = TRUE,
                 !.pad_a = PadLen(gen.a.password),
                 !.pad_b = PadLen(gen.b.password),
                 !.bytes_a = GenInput(gen.a.session_id, gen.a.password,
                                      gen.a.id_a, gen.a.id_b, gen.a.ad),
                 !.bytes_b = GenInput(gen.b.session_id, gen.b.password,
                                      gen.b.id_a, gen.b.id_b, gen.b.ad),
                 !.p_a = Generator(gen.a.session_id, gen.a.password,
                                   gen.a.id_a, gen.a.id_b, gen.a.ad),
                 !.p_b = Generator(gen.b.session_id, gen.b.password,
                                   gen.b.id_a, gen.b.id_b, gen.b.ad)]
    /\ UNCHANGED <<live, step1, step2, step3, call>>

NextGen == Derive

SpecGen == InitGen /\ [][NextGen]_vars

(***************************************************************************)
(* The same derivation for passwords of every length from none to more      *)
(* than two blocks of the hash.                                             *)
(***************************************************************************)
\* The longest password tried.
MaxPasswordLen == 300

InitPad ==
    /\ live = {}
    /\ step1 = [i \in Runs |-> NoStep1]
    /\ step2 = [i \in Runs |-> NoStep2]
    /\ step3 = [i \in Runs |-> NoStep3]
    /\ \E n \in 0..MaxPasswordLen, sid \in SessionIds, ad \in GenAds :
          LET in == [session_id |-> sid, password |-> Rep(112, n),
                     id_a |-> TestArgs.id_a, id_b |-> TestArgs.id_b,
                     ad |-> ad]
          IN  gen = [NoGen EXCEPT !.a = in, !.b = in]
    /\ call = NoCall

SpecPad == InitPad /\ [][NextGen]_vars

(***************************************************************************)
(* Shorthands for the properties.                                           *)
(***************************************************************************)
\* The Step1Out of run i (defined when step1 succeeded).
Step1OutOf(i) == step1[i].res.val

\* The Step2Out of run i (defined when step2 succeeded).
Step2OutOf(i) == step2[i].res.val

\* Every getrandom call the call made filled its buffer.
DrawsOk(draws) == \A k \in 1..Len(draws) : draws[k].ok

\* The responder of run i was given the Step1 packet as the initiator made
\* it, and the initiator's password, identities and associated data.
HonestStep2(i) ==
    /\ step1[i].res.ok
    /\ step2[i].called
    /\ step2[i].packet = Step1OutOf(i).step1_packet
    /\ step2[i].args = step1[i].args

\* The last step3 call of run i was given the Step2 packet as the responder
\* made it.
HonestStep3(i) ==
    /\ step2[i].res.ok
    /\ step3[i].n > 0
    /\ step3[i].packet = Step2OutOf(i).step2_packet

\* Both sides of run i hold keys, and the same ones.
KeysAgree(i) ==
    /\ step2[i].res.ok
    /\ step3[i].res.ok
    /\ step3[i].res.val.k1 = Step2OutOf(i).shared_keys.k1
    /\ step3[i].res.val.k2 = Step2OutOf(i).shared_keys.k2

(***************************************************************************)
(* C1.  Agreement: when step1 is followed by step2 on the unmodified Step1  *)
(* packet with the same password, identities and associated data, and then  *)
(* by step3 on the unmodified Step2 packet, all three calls succeed and the *)
(* k1 and k2 step3 returns are the k1 and k2 of the responder's Step2Out,   *)
(* whatever values the random source drew.                                  *)
(***************************************************************************)
C1_Agreement ==
    \A i \in Runs :
        HonestStep2(i) /\ DrawsOk(step2[i].draws) =>
            /\ step2[i].res.ok
            /\ HonestStep3(i) => KeysAgree(i)

C1_Witness ==
    \E i \in Runs :
        /\ HonestStep2(i) /\ HonestStep3(i) /\ KeysAgree(i)
        /\ Step1OutOf(i).ctx.r # step2[i].fin.r

(***************************************************************************)
(* C2.  Key secrecy against whoever controls the network and does not know  *)
(* the password: every packet step3 (likewise step2) accepts yields keys    *)
(* that depend on the password-derived generator combined with the role's   *)
(* own secret scalar.  The keys are a hash of K and of the two elements on  *)
(* the wire, so they depend on the scalar exactly when K does: when K, the  *)
(* received element multiplied by the scalar, is not the identity, which is *)
(* the one element whose multiples are the same for every scalar.           *)
(***************************************************************************)
C2_KeysDependOnSecret ==
    \A i \in Runs :
        /\ step3[i].res.ok => step3[i].fin.k # Identity
        /\ step2[i].res.ok => step2[i].fin.k # Identity

(***************************************************************************)
(* C3.  Fixed role order in finalization: the responder finalizes with      *)
(* Y_A = the element received in the Step1 packet and Y_B = its own public  *)
(* element, the initiator with Y_A = its own stored public element and      *)
(* Y_B = the element received in the Step2 packet; and each role computes K *)
(* as the peer's element multiplied by its own secret scalar.               *)
(***************************************************************************)
C3_RoleOrder ==
    \A i \in Runs :
        /\ step2[i].fin.called =>
              LET received == Decompress(step2[i].packet.elem).val
                  own == Decompress(Step2OutOf(i).step2_packet).val
                  r == FromBytesModOrderWide(step2[i].draws[1].bytes)
              IN  /\ step2[i].fin.ya = received
                  /\ step2[i].fin.yb = own
                  /\ step2[i].fin.k = MulPoint(received, r)
        /\ step3[i].fin.called =>
              LET received == Decompress(step3[i].packet).val
                  own == Decompress(Step1OutOf(i).step1_packet.elem).val
                  r == FromBytesModOrderWide(step1[i].draws[2].bytes)
              IN  /\ step3[i].fin.ya = own
                  /\ step3[i].fin.yb = received
                  /\ step3[i].fin.k = MulPoint(received, r)

\* Both roles have finalized, with elements that tell the roles apart.
C3_Witness ==
    \E i \in Runs :
        /\ step2[i].fin.called /\ step3[i].fin.called
        /\ step2[i].fin.ya # step2[i].fin.yb
        /\ step3[i].fin.ya # step3[i].fin.yb
        /\ step3[i].fin.k # Identity

(***************************************************************************)
(* C4.  Tamper detection: if the Step1 packet (session id or element) is    *)
(* altered before step2 processes it, or the Step2 packet before step3      *)
(* processes it, in a run that is otherwise the one of C1, then the         *)
(* processing call fails with InvalidPublicKey, or it succeeds and the      *)
(* initiator's (k1, k2) differ from the responder's.  Whatever the calls    *)
(* were given, the two sides never hold equal keys after a packet was       *)
(* altered.                                                                 *)
(***************************************************************************)
\* The responder was given a packet other than the one the initiator made.
Step1PacketAltered(i) ==
    /\ step1[i].res.ok
    /\ step2[i].called
    /\ step2[i].packet # Step1OutOf(i).step1_packet

\* The initiator was given a packet other than the one the responder made.
Step2PacketAltered(i) ==
    /\ step2[i].res.ok
    /\ step3[i].n > 0
    /\ step3[i].packet # Step2OutOf(i).step2_packet

\* C4: after an alteration of the Step1 or the Step2 packet the two sides
\* never hold the same keys, whatever else both calls were given.
C4_TamperDetection ==
    \A i \in Runs :
        /\ Step1PacketAltered(i) \/ Step2PacketAltered(i) => ~KeysAgree(i)
        /\ /\ Step1PacketAltered(i)
           /\ step2[i].args = step1[i].args
           /\ DrawsOk(step2[i].draws)
           => \/ step2[i].res = Err("InvalidPublicKey")
              \/ step2[i].res.ok /\ (step3[i].n > 0 => ~KeysAgree(i))
        /\ Step2PacketAltered(i)
           => \/ step3[i].res = Err("InvalidPublicKey")
              \/ step3[i].res.ok /\ ~KeysAgree(i)

\* The session id alone was altered, the Step2 packet went through as it
\* was made, and both calls succeeded.
C4_Witness ==
    \E i \in Runs :
        /\ step2[i].res.ok /\ step3[i].res.ok
        /\ step2[i].args = step1[i].args
        /\ step2[i].packet.sid # Step1OutOf(i).step1_packet.sid
        /\ step2[i].packet.elem = Step1OutOf(i).step1_packet.elem
        /\ step3[i].packet = Step2OutOf(i).step2_packet

(***************************************************************************)
(* C5.  Peer-element validation.                                            *)
(***************************************************************************)
\* The bytes decode to no group element.
Undecodable(bytes) == bytes.nc # 0

\* CPace::new succeeds in the step2 call of run i: both identifiers are at
\* most 255 bytes long and the scalar was drawn.
Step2NewSucceeded(i) ==
    /\ Len(step2[i].args.id_a) <= MAX_ID_LEN
    /\ Len(step2[i].args.id_b) <= MAX_ID_LEN
    /\ Len(step2[i].draws) = 1
    /\ step2[i].draws[1].ok

\* C5 as stated, wherever the random source works: step2 returns
\* InvalidPublicKey when the last 32 bytes of the Step1 packet do not decode
\* to a group element, and step3 returns InvalidPublicKey when the Step2
\* packet does not.
C5_AsStated ==
    \A i \in Runs :
        /\ /\ step2[i].called
           /\ DrawsOk(step2[i].draws)
           /\ Undecodable(step2[i].packet.elem)
           => step2[i].res = Err("InvalidPublicKey")
        /\ step3[i].n > 0 /\ Undecodable(step3[i].packet)
           => step3[i].res = Err("InvalidPublicKey")

\* C5, amended: when the last 32 bytes of the Step1 packet do not decode to
\* a group element, step2 returns no Step2Out (no keys, no Step2 packet),
\* and its error is InvalidPublicKey provided CPace::new succeeded, when it
\* has drawn its scalar and computed its own public element; otherwise the
\* error is that of CPace::new.  step3 returns InvalidPublicKey and no keys
\* when the Step2 packet does not decode to a group element.
C5_PeerElementValidation ==
    \A i \in Runs :
        /\ step2[i].called /\ Undecodable(step2[i].packet.elem)
           => /\ ~step2[i].res.ok
              /\ ~step2[i].fin.called
              /\ step2[i].res.err \in {"Overflow", "Random", "InvalidPublicKey"}
              /\ step2[i].res.err = "InvalidPublicKey" <=> Step2NewSucceeded(i)
        /\ step3[i].n > 0 /\ Undecodable(step3[i].packet)
           => /\ step3[i].res = Err("InvalidPublicKey")
              /\ ~step3[i].fin.called

\* Both roles were given bytes that decode to nothing, the responder after
\* it had drawn its scalar.
C5_Witness ==
    \E i \in Runs :
        /\ step2[i].called /\ Undecodable(step2[i].packet.elem)
        /\ Step2NewSucceeded(i)
        /\ step2[i].res = Err("InvalidPublicKey")
        /\ step3[i].n > 0 /\ Undecodable(step3[i].packet)
        /\ step3[i].res = Err("InvalidPublicKey")

(***************************************************************************)
(* C6.  A Step2 packet of 32 zero bytes given to step3 yields               *)
(* InvalidPublicKey and no key; so does a Step1 packet whose element part   *)
(* is 32 zero bytes given to step2 (with identifiers CPace::new accepts and *)
(* a random source that works, so that the element is looked at).           *)
(***************************************************************************)
C6_ZeroPacketRejected ==
    \A i \in Runs :
        /\ step3[i].n > 0 /\ step3[i].packet = ZeroBytes32
           => step3[i].res = Err("InvalidPublicKey")
        /\ /\ step2[i].called
           /\ step2[i].packet.elem = ZeroBytes32
           /\ Step2NewSucceeded(i)
           => step2[i].res = Err("InvalidPublicKey")

(***************************************************************************)
(* C7.  Identity length check.                                              *)
(***************************************************************************)
\* An identifier of the call is longer than 255 bytes.
Overlong(args) == Len(args.id_a) > 255 \/ Len(args.id_b) > 255

\* C7 as stated: step1 and step2 return Overflow when id_a or id_b is
\* longer than 255 bytes.
C7_AsStated ==
    \A i \in Runs :
        /\ step1[i].called /\ Overlong(step1[i].args)
           => step1[i].res = Err("Overflow")
        /\ step2[i].called /\ Overlong(step2[i].args)
           => step2[i].res = Err("Overflow")

\* The bytes CPace::new hashes when nothing is truncated: each identifier
\* whole, behind a byte that holds its length.
UntruncatedInput(session_id, args) ==
    DSI1 \o args.password
         \o Rep(0, (BLOCKBYTES - (Len(DSI1) + Len(args.password))) % BLOCKBYTES)
         \o session_id
         \o <<Len(args.id_a)>> \o args.id_a
         \o <<Len(args.id_b)>> \o args.id_b
         \o args.ad.bytes

\* C7, amended: step2 returns Overflow when id_a or id_b is longer than 255
\* bytes, and so does step1 provided its draw of the session id succeeded (a
\* failed draw makes it return Random before the lengths are looked at);
\* 256 bytes are rejected and 255 accepted; the check comes before the
\* scalar is drawn and before anything is fed to the hash; no packet,
\* context or keys are returned; an identifier that is accepted is hashed
\* whole, behind its length.
C7_IdentityLengthCheck ==
    \A i \in Runs :
        /\ step1[i].called /\ Overlong(step1[i].args) /\ step1[i].draws[1].ok
           => /\ step1[i].res = Err("Overflow")
              /\ Len(step1[i].draws) = 1
        /\ step2[i].called /\ Overlong(step2[i].args)
           => /\ step2[i].res = Err("Overflow")
              /\ step2[i].draws = <<>>
              /\ ~step2[i].fin.called
        /\ step1[i].called /\ ~Overlong(step1[i].args)
           => /\ step1[i].res # Err("Overflow")
              /\ step1[i].res.ok =>
                    LET ctx == Step1OutOf(i).ctx
                    IN  MulPoint(FromUniformBytes(Hash(
                            UntruncatedInput(ctx.session_id, step1[i].args))),
                            ctx.r) = ctx.p
        /\ step2[i].called /\ ~Overlong(step2[i].args)
           => /\ step2[i].res # Err("Overflow")
              /\ step2[i].res.ok =>
                    MulPoint(FromUniformBytes(Hash(
                        UntruncatedInput(step2[i].packet.sid, step2[i].args))),
                        step2[i].fin.r) = step2[i].fin.yb

\* An identifier of 255 bytes was accepted by step1, and one of 256 bytes
\* rejected by step2.
C7_Witness ==
    \E i \in Runs :
        /\ step1[i].res.ok /\ Len(step1[i].args.id_a) = 255
        /\ step2[i].res = Err("Overflow")
        /\ Len(step2[i].args.id_b) = 256

(***************************************************************************)
(* C8.  Random-source failure is fatal: if the random source fails while    *)
(* step1 draws the session id, or while step1 or step2 draws the scalar,    *)
(* the call returns Random and no packet, context or keys; a call that      *)
(* succeeds holds the session id and the scalar it drew.                    *)
(***************************************************************************)
C8_RandomFailureFatal ==
    \A i \in Runs :
        /\ step1[i].called /\ ~DrawsOk(step1[i].draws)
           => step1[i].res = Err("Random")
        /\ step2[i].called /\ ~DrawsOk(step2[i].draws)
           => step2[i].res = Err("Random") /\ ~step2[i].fin.called
        /\ step1[i].res.ok
           => /\ Len(step1[i].draws) = 2
              /\ Step1OutOf(i).ctx.session_id = step1[i].draws[1].bytes
              /\ Step1OutOf(i).step1_packet.sid = step1[i].draws[1].bytes
              /\ Step1OutOf(i).ctx.r
                    = FromBytesModOrderWide(step1[i].draws[2].bytes)
        /\ step2[i].res.ok
           => /\ Len(step2[i].draws) = 1
              /\ step2[i].fin.r
                    = FromBytesModOrderWide(step2[i].draws[1].bytes)

\* The random source failed while step2 drew its scalar.
C8_Witness ==
    \E i \in Runs :
        /\ step2[i].called
        /\ Len(step2[i].draws) = 1 /\ ~step2[i].draws[1].ok
        /\ step2[i].res = Err("Random")

(***************************************************************************)
(* C9.  Single-use context.                                                 *)
(***************************************************************************)
\* C9 as stated: after one step3 call that returned keys, no second step3
\* call on the same Step1Out returns keys.
C9_AsStated == \A i \in Runs : step3[i].returned <= 1

\* C9, amended: step3 borrows the Step1Out and leaves it as it was, so the
\* context is not invalidated: every step3 call on a Step1Out, the first or
\* a later one, returns keys exactly when its packet decodes to a group
\* element.  One context for one run is the caller's to ensure.
C9_ContextReusable ==
    [][\A i \in Runs :
          step3'[i].n = step3[i].n + 1 =>
              /\ step1'[i] = step1[i]
              /\ step3'[i].res.ok <=> ~Undecodable(step3'[i].packet)
      ]_vars

\* Two step3 calls on one Step1Out have returned keys.
C9_Witness == \E i \in Runs : step3[i].returned >= 2

(***************************************************************************)
(* C10.  Generator input sensitivity: changing any single one of            *)
(* session_id, password, id_a, id_b or associated_data (its bytes) while    *)
(* the other four stay fixed changes the byte string fed to the generator   *)
(* hash, and therefore the generator element, for every pair of distinct    *)
(* values of that field.                                                    *)
(***************************************************************************)
\* The two inputs differ in one field, and in it by the bytes it holds.
OneFieldChanged(a, b) ==
    /\ Cardinality(FieldsChanged(a, b)) = 1
    /\ FieldsChanged(a, b) = {"ad"} => AdBytes(a.ad) # AdBytes(b.ad)

\* C10: two inputs that differ in exactly one field feed different bytes to
\* the generator hash and so derive different generators.
C10_InputSensitivity ==
    gen.done /\ OneFieldChanged(gen.a, gen.b) =>
        /\ gen.bytes_a # gen.bytes_b
        /\ gen.p_a # gen.p_b

(***************************************************************************)
(* C11.  Generator determinism: the generator is a function of session_id,  *)
(* password, id_a, id_b and associated data only.  A context keeps its      *)
(* public element p = generator * r, with r not zero, so the generator a    *)
(* call derived is the element of which its p is a multiple.                *)
(***************************************************************************)
\* The generator of which the public element pt is a multiple.
GeneratorOf(pt) == [base |-> pt.base, exp |-> 1]

\* Both roles of run i derived a generator, from the same five values.
SameInputs(i) ==
    /\ step1[i].res.ok
    /\ step2[i].res.ok
    /\ NewInput(step2[i].packet.sid, step2[i].args)
          = NewInput(Step1OutOf(i).ctx.session_id, step1[i].args)

\* C11: the initiator and the responder, given the same five values, derive
\* the same generator whatever each of them drew, and it is the generator
\* of these five values.
C11_GeneratorDeterminism ==
    \A i \in Runs :
        SameInputs(i) =>
            /\ GeneratorOf(Step1OutOf(i).ctx.p) = GeneratorOf(step2[i].fin.yb)
            /\ GeneratorOf(step2[i].fin.yb)
                  = Generator(step2[i].packet.sid, step2[i].args.password,
                              step2[i].args.id_a, step2[i].args.id_b,
                              step2[i].args.ad)

\* The two roles derived from the same five values and drew different
\* bytes for their scalars.
C11_Witness ==
    \E i \in Runs :
        /\ SameInputs(i)
        /\ step1[i].draws[2].bytes # step2[i].draws[1].bytes
        /\ Step1OutOf(i).ctx.r # step2[i].fin.r

(***************************************************************************)
(* C12.  Wire layout and session-id transport.  A Step1 packet is held as   *)
(* its two parts, the 16 bytes before SESSION_ID_BYTES and the 32 bytes     *)
(* after; a Step2 packet is a 32-byte encoding.                             *)
(***************************************************************************)
\* C12: the Step1 packet is the session id step1 drew followed by the
\* encoding of the initiator's public element, and nothing else; step2
\* derives its generator from the first part of the packet it received and
\* decodes the peer element from the second; the Step2 packet is the
\* encoding of the responder's public element; so with the Step1 packet
\* unmodified both roles use the same session id.
C12_WireLayout ==
    \A i \in Runs :
        /\ step1[i].res.ok =>
              LET pkt == Step1OutOf(i).step1_packet
              IN  /\ DOMAIN pkt = {"sid", "elem"}
                  /\ pkt.sid = step1[i].draws[1].bytes
                  /\ Len(pkt.sid) = SESSION_ID_BYTES
                  /\ Len(pkt.sid) + STEP2_PACKET_BYTES = STEP1_PACKET_BYTES
                  /\ pkt.elem = Compress(Step1OutOf(i).ctx.p)
        /\ step2[i].res.ok =>
              /\ GeneratorOf(step2[i].fin.yb)
                    = Generator(step2[i].packet.sid, step2[i].args.password,
                                step2[i].args.id_a, step2[i].args.id_b,
                                step2[i].args.ad)
              /\ Ok(step2[i].fin.ya) = Decompress(step2[i].packet.elem)
              /\ Step2OutOf(i).step2_packet = Compress(step2[i].fin.yb)
        /\ step2[i].res.ok /\ step2[i].packet = Step1OutOf(i).step1_packet
              => step2[i].packet.sid = Step1OutOf(i).ctx.session_id

\* Both packets of a run were made, the first delivered as it was sent.
C12_Witness ==
    \E i \in Runs :
        /\ step2[i].res.ok
        /\ step2[i].packet = Step1OutOf(i).step1_packet
        /\ step2[i].packet.sid # Rep(0, SESSION_ID_BYTES)
        /\ Step2OutOf(i).step2_packet # step2[i].packet.elem

(***************************************************************************)
(* C13.  Independence of concurrent runs.                                   *)
(***************************************************************************)
\* What the calls of run i return when they are made with nothing but what
\* run i was given and drew.
AsIfAlone(i) ==
    /\ step1[i].called =>
          step1[i].res = Step1Fn(step1[i].args, step1[i].draws[1],
                                 step1[i].draws[2]).res
    /\ step2[i].called =>
          step2[i].res = Step2Fn(step2[i].packet, step2[i].args,
                                 step2[i].draws[1]).res
    /\ step3[i].n > 0 =>
          step3[i].res = Step3Fn(Step1OutOf(i).ctx, step3[i].packet).res

\* The initiator of run i was given the Step2 packet of run j.
CrossDelivered(i, j) ==
    /\ i # j
    /\ step2[j].res.ok
    /\ step3[i].n > 0
    /\ step3[i].packet = Step2OutOf(j).step2_packet

\* C13: with two runs interleaved, every call returns what it returns when
\* its run is alone, a run whose own packets are delivered to it ends with
\* agreeing keys, and an initiator given the Step2 packet of the other run
\* gets keys that are neither responder's.
C13_ConcurrentRuns ==
    \A i \in Runs :
        /\ AsIfAlone(i)
        /\ HonestStep2(i) /\ HonestStep3(i) => KeysAgree(i)
        /\ \A j \in Runs :
              CrossDelivered(i, j) =>
                  /\ step3[i].res.ok
                  /\ \A k \in Runs :
                        step2[k].res.ok =>
                            step3[i].res.val # Step2OutOf(k).shared_keys

\* Both runs have made their three calls; one initiator was given its own
\* run's Step2 packet, the other the packet of the run that is not its own.
C13_Witness ==
    /\ HonestStep2(1) /\ HonestStep3(1) /\ KeysAgree(1)
    /\ step2[2].called /\ CrossDelivered(2, 1)

(***************************************************************************)
(* C14.  Generator hash input order.                                        *)
(***************************************************************************)
\* The bytes `bytes` are, in this order and with nothing else:
\* "CPaceRistretto255-1", the password, zero bytes up to the next multiple
\* of 128, the session id, a byte holding len(id_a), id_a, a byte holding
\* len(id_b), id_b, and the associated data if there is any.
LaidOutAsSpecified(in, bytes) ==
    LET tag  == <<67, 80, 97, 99, 101, 82, 105, 115, 116, 114, 101, 116, 116,
                  111, 50, 53, 53, 45, 49>>
        pad  == (128 - ((19 + Len(in.password)) % 128)) % 128
        o1   == 19
        o2   == o1 + Len(in.password)
        o3   == o2 + pad
        o4   == o3 + 16
        o5   == o4 + 1 + Len(in.id_a)
        o6   == o5 + 1 + Len(in.id_b)
        tail == IF in.ad.some THEN in.ad.bytes ELSE <<>>
    IN  /\ Len(bytes) = o6 + Len(tail)
        /\ SubSeq(bytes, 1, o1) = tag
        /\ SubSeq(bytes, o1 + 1, o2) = in.password
        /\ \A k \in (o2 + 1)..o3 : bytes[k] = 0
        /\ SubSeq(bytes, o3 + 1, o4) = in.session_id
        /\ Len(in.session_id) = 16
        /\ bytes[o4 + 1] = Len(in.id_a)
        /\ SubSeq(bytes, o4 + 2, o5) = in.id_a
        /\ bytes[o5 + 1] = Len(in.id_b)
        /\ SubSeq(bytes, o5 + 2, o6) = in.id_b
        /\ SubSeq(bytes, o6 + 1, Len(bytes)) = tail

\* C14: the byte string fed to the generator hash is DSI1, the password,
\* pad_len zero bytes, the session id, len(id_a) in one byte, id_a,
\* len(id_b) in one byte, id_b, then the associated data without a length
\* (nothing when absent), in this order and with nothing else.
C14_HashInputOrder ==
    gen.done =>
        /\ LaidOutAsSpecified(gen.a, gen.bytes_a)
        /\ LaidOutAsSpecified(gen.b, gen.bytes_b)

\* A derivation whose every part is there and tells itself from the others:
\* a password that ends one byte into a second block, two different
\* identifiers, and associated data.
C14_Witness ==
    /\ gen.done
    /\ Len(gen.a.password) = 110
    /\ gen.a.id_a = <<99>>
    /\ gen.a.id_b = <<99, 0>>
    /\ gen.a.ad = Some(<<97, 100>>)
    /\ Len(gen.bytes_a) = 256 + 16 + 2 + 2 + 3

(***************************************************************************)
(* C15.  Padding length.                                                    *)
(***************************************************************************)
\* pad is the padding length C15 gives for a password of n bytes.
PadsToBlock(n, pad) ==
    /\ 0 <= pad /\ pad <= 127
    /\ (19 + n + pad) % 128 = 0
    /\ pad = 0 <=> (19 + n) % 128 = 0

\* C15: for a password of any length, pad_len is between 0 and 127, makes
\* 19 + L + pad_len a multiple of 128, and is 0 exactly when 19 + L is one
\* already; and so many bytes, all zero, follow the password.
C15_PaddingLength ==
    gen.done =>
        LET n == Len(gen.a.password)
        IN  /\ PadsToBlock(n, gen.pad_a)
            /\ \A k \in (19 + n + 1)..(19 + n + gen.pad_a) :
                  gen.bytes_a[k] = 0
            /\ SubSeq(gen.bytes_a, 19 + n + gen.pad_a + 1,
                      19 + n + gen.pad_a + 16) = gen.a.session_id

\* A password for which the subtraction wraps, one byte into a third block:
\* it needs all 127 bytes.
C15_Witness ==
    /\ gen.done
    /\ Len(gen.a.password) = 238
    /\ gen.pad_a = 127

(***************************************************************************)
(* C16.  A failed step3 leaves the context untouched.                       *)
(***************************************************************************)
\* C16: a step3 call that returns InvalidPublicKey changes nothing of the
\* Step1Out (session id, public element, scalar); the step3 call that
\* comes after it on the same Step1Out fails again with InvalidPublicKey
\* when it is given the same packet, and when it is given the Step2 packet
\* the responder made from the initiator's Step1 packet and arguments it
\* returns the keys of the responder's Step2Out.
C16_FailedStep3Frame ==
    [][\A i \in Runs :
          /\ /\ step3'[i].n = step3[i].n + 1
             /\ step3'[i].res = Err("InvalidPublicKey")
             => step1'[i] = step1[i]
          /\ /\ step3[i].n > 0
             /\ step3[i].res = Err("InvalidPublicKey")
             /\ step3'[i].n = step3[i].n + 1
             => /\ step3'[i].packet = step3[i].packet
                   => step3'[i].res = Err("InvalidPublicKey")
                /\ /\ HonestStep2(i)
                   /\ step2[i].res.ok
                   /\ step3'[i].packet = Step2OutOf(i).step2_packet
                   => /\ step3'[i].res.ok
                      /\ step3'[i].res.val = Step2OutOf(i).shared_keys
      ]_vars

\* After a step3 call that failed, a second one on the same Step1Out was
\* given the responder's packet and returned the responder's keys.
C16_Witness ==
    \E i \in Runs :
        /\ step3[i].n = 2
        /\ step3[i].returned = 1
        /\ HonestStep2(i) /\ HonestStep3(i) /\ KeysAgree(i)

(***************************************************************************)
(* C17.  Order of failure checks.                                           *)
(***************************************************************************)
\* C17: step2 checks the identity lengths before it draws any random bytes
\* and draws its scalar before it decodes the received element, so it
\* returns Overflow in preference to Random and Random in preference to
\* InvalidPublicKey; step1 draws the session id before the lengths are
\* checked, so with a failing random source it returns Random even when an
\* identity is longer than 255 bytes.
C17_FailureOrder ==
    /\ call.done /\ call.fn = "step2" =>
          /\ Overlong(call.args)
             => call.res = Err("Overflow") /\ call.draws = <<>>
          /\ ~Overlong(call.args)
             => call.draws = <<call.rnd_r>>
          /\ ~Overlong(call.args) /\ ~call.rnd_r.ok
             => call.res = Err("Random")
          /\ ~Overlong(call.args) /\ call.rnd_r.ok
                /\ Undecodable(call.packet.elem)
             => call.res = Err("InvalidPublicKey")
    /\ call.done /\ call.fn = "step1" =>
          /\ ~call.rnd_sid.ok
             => call.res = Err("Random") /\ call.draws = <<call.rnd_sid>>
          /\ call.rnd_sid.ok /\ Overlong(call.args)
             => call.res = Err("Overflow") /\ call.draws = <<call.rnd_sid>>

\* step2 was called with all three wrong at once: an identity of 256
\* bytes, a random source that fails, and an element that does not decode.
C17_Witness ==
    /\ call.done /\ call.fn = "step2"
    /\ Overlong(call.args)
    /\ ~call.rnd_r.ok
    /\ Undecodable(call.packet.elem)
    /\ call.res = Err("Overflow")

(***************************************************************************)
(* C18.  Input mismatch is silent.                                          *)
(***************************************************************************)
\* The responder of run i was given the initiator's Step1 packet, and a
\* password, identities or associated data from which it derived a
\* generator other than the initiator's; its random source worked.
MismatchedStep2(i) ==
    /\ step1[i].res.ok
    /\ step2[i].called
    /\ step2[i].packet = Step1OutOf(i).step1_packet
    /\ ~Overlong(step2[i].args)
    /\ DrawsOk(step2[i].draws)
    /\ Generator(step2[i].packet.sid, step2[i].args.password,
                 step2[i].args.id_a, step2[i].args.id_b, step2[i].args.ad)
          # Generator(Step1OutOf(i).ctx.session_id, step1[i].args.password,
                      step1[i].args.id_a, step1[i].args.id_b,
                      step1[i].args.ad)

\* C18: when the responder's password, id_a, id_b or associated data give
\* it a generator other than the initiator's, step2 still returns Ok, and
\* so does step3 on the responder's Step2 packet: no error tells of the
\* mismatch, and the keys step3 returns are not those of the Step2Out.
C18_SilentMismatch ==
    \A i \in Runs :
        MismatchedStep2(i) =>
            /\ step2[i].res.ok
            /\ HonestStep3(i) =>
                  /\ step3[i].res.ok
                  /\ step3[i].res.val.k1 # Step2OutOf(i).shared_keys.k1
                  /\ step3[i].res.val.k2 # Step2OutOf(i).shared_keys.k2

\* The responder used another password, and both roles returned keys.
C18_Witness ==
    \E i \in Runs :
        /\ MismatchedStep2(i)
        /\ step2[i].args.password # step1[i].args.password
        /\ HonestStep3(i)
        /\ step3[i].res.ok

(***************************************************************************)
(* C19.  Separation of the two hashes despite equal tags.  A public element *)
(* is a multiple of the generator, whose base is the digest of the bytes    *)
(* CPace::new hashed; a key is a slice of the digest of what finalize       *)
(* hashed.                                                                  *)
(***************************************************************************)
\* The bytes hashed for the generator of which pt is a multiple.
GenBytesOf(pt) == pt.base.sha512

\* bytes, hashed for a generator from args, are a whole number of 128-byte
\* blocks, at least one, then 16 session-id bytes, two length bytes, the
\* identifiers and the associated data: 146 bytes at least.
GenLengthOk(bytes, args) ==
    LET head == Len(bytes) - (16 + 2 + Len(args.id_a) + Len(args.id_b)
                                + Len(AdBytes(args.ad)))
    IN  /\ head >= 128
        /\ head % 128 = 0
        /\ Len(bytes) >= 146

\* C19: DSI1 and DSI2 are the same 19 bytes, yet every byte string hashed
\* for a generator is at least 146 bytes long and every byte string hashed
\* by finalize is exactly 115 bytes long (19 + 3 * 32), so none of the
\* first equals one of the second.
C19_HashSeparation ==
    /\ DSI1 = DSI2 /\ Len(DSI1) = 19
    /\ \A i \in Runs :
          /\ step1[i].res.ok =>
                GenLengthOk(GenBytesOf(Step1OutOf(i).ctx.p), step1[i].args)
          /\ step2[i].res.ok =>
                /\ GenLengthOk(GenBytesOf(step2[i].fin.yb), step2[i].args)
                /\ FinalizeInputLen(
                       Step2OutOf(i).shared_keys.k1.digest.sha512) = 115
                /\ Step2OutOf(i).shared_keys.k2.digest
                      = Step2OutOf(i).shared_keys.k1.digest
          /\ step3[i].res.ok =>
                /\ FinalizeInputLen(step3[i].res.val.k1.digest.sha512) = 115
                /\ step3[i].res.val.k2.digest = step3[i].res.val.k1.digest
                /\ Len(GenBytesOf(Step1OutOf(i).ctx.p))
                      # FinalizeInputLen(step3[i].res.val.k1.digest.sha512)

\* Both roles have hashed for their generator and for their keys.
C19_Witness ==
    \E i \in Runs :
        /\ step2[i].res.ok /\ step3[i].res.ok
        /\ step1[i].args.ad = None
        /\ Len(GenBytesOf(Step1OutOf(i).ctx.p)) = 128 + 16 + 2 + 12

(***************************************************************************)
(* C20.  Absent and empty associated data are equivalent.                   *)
(***************************************************************************)
\* One role of run i passed None and the other Some(""), everything else
\* being the same and the Step1 packet delivered as it was made; the
\* responder's random source worked.
NoneAgainstEmpty(i) ==
    /\ step1[i].res.ok
    /\ step2[i].called
    /\ step2[i].packet = Step1OutOf(i).step1_packet
    /\ DrawsOk(step2[i].draws)
    /\ {step1[i].args.ad, step2[i].args.ad} = {None, Some(<<>>)}
    /\ [step2[i].args EXCEPT !.ad = None] = [step1[i].args EXCEPT !.ad = None]

\* C20: with one role passing None and the other an empty associated data,
\* both feed the same bytes to the generator hash and derive the same
\* generator, and the run completes with agreeing keys.
C20_NoneIsEmpty ==
    \A i \in Runs :
        NoneAgainstEmpty(i) =>
            /\ step2[i].res.ok
            /\ GenBytesOf(step2[i].fin.yb) = GenBytesOf(Step1OutOf(i).ctx.p)
            /\ GeneratorOf(step2[i].fin.yb)
                  = GeneratorOf(Step1OutOf(i).ctx.p)
            /\ HonestStep3(i) => KeysAgree(i)

\* Such a run has completed.
C20_Witness ==
    \E i \in Runs :
        /\ NoneAgainstEmpty(i)
        /\ step1[i].args.ad # step2[i].args.ad
        /\ HonestStep3(i)
        /\ KeysAgree(i)

=============================================================================
